---------------------------- MODULE Spec2Model ----------------------------
(***************************************************************************)
(* Bone targeting and procedural skeletal animation                        *)
(* (src/src/anim_engine/bone_system.ts): BoneFinder, SkeletonMap and       *)
(* BoneAnimationController, with the host calls that drive them.           *)
(*                                                                         *)
(* Strings are sequences of one-character strings, so that toLowerCase,    *)
(* trim and includes are computed and not assumed.  A scene is the         *)
(* sequence of its nodes in the order Object3D.traverse visits them.       *)
(***************************************************************************)
EXTENDS Integers, Sequences, FiniteSets, TLC

(***************************************************************************)
(* Bounds of the model.                                                    *)
(***************************************************************************)
\* Largest number of nodes below the scene root.
MaxNodes == 2
\* Largest number of animation-function invocations recorded for one update
\* call (an update that re-registers its own entry would otherwise never end).
MaxCalls == 4

Nodes == 1..MaxNodes

(***************************************************************************)
(* Strings                                                                 *)
(***************************************************************************)
UpperCase ==
    << "A", "B", "C", "D", "E", "F", "G", "H", "I", "J", "K", "L", "M",
       "N", "O", "P", "Q", "R", "S", "T", "U", "V", "W", "X", "Y", "Z" >>

LowerCase ==
    << "a", "b", "c", "d", "e", "f", "g", "h", "i", "j", "k", "l", "m",
       "n", "o", "p", "q", "r", "s", "t", "u", "v", "w", "x", "y", "z" >>

\* String.prototype.toLowerCase on one character.
LowerTable ==
    [c \in {UpperCase[i] : i \in 1..Len(UpperCase)} |->
        LowerCase[CHOOSE i \in 1..Len(UpperCase) : UpperCase[i] = c]]

LowerChar(c) == IF c \in DOMAIN LowerTable THEN LowerTable[c] ELSE c

\* String.prototype.toLowerCase.
ToLowerCase(s) == [i \in 1..Len(s) |-> LowerChar(s[i])]

WhiteSpace == {" ", "\t", "\n"}

RECURSIVE TrimStart(_)
TrimStart(s) ==
    IF s # << >> /\ Head(s) \in WhiteSpace THEN TrimStart(Tail(s)) ELSE s

RECURSIVE TrimEnd(_)
TrimEnd(s) ==
    IF s # << >> /\ s[Len(s)] \in WhiteSpace
    THEN TrimEnd(SubSeq(s, 1, Len(s) - 1))
    ELSE s

\* String.prototype.trim.
Trim(s) == TrimEnd(TrimStart(s))

\* String.prototype.includes: p occurs in s as a contiguous substring.
Includes(s, p) ==
    \E i \in 0..(Len(s) - Len(p)) : SubSeq(s, i + 1, i + Len(p)) = p

(***************************************************************************)
(* Map: a JavaScript Map is a sequence of entries in insertion order.      *)
(***************************************************************************)
MapHas(m, k) == \E i \in 1..Len(m) : m[i].key = k

MapIndex(m, k) == CHOOSE i \in 1..Len(m) : m[i].key = k

\* Map.prototype.get, for a key the map holds.
MapGet(m, k) == m[MapIndex(m, k)].val

\* Two containers that are not a Map: one that appends whatever the key,
\* one that moves a key that is set again to the end.
MapSetAppendAlways(m, k, v) == Append(m, [key |-> k, val |-> v])

MapSetMoveToEnd(m, k, v) ==
    Append(SelectSeq(m, LAMBDA e : e.key # k), [key |-> k, val |-> v])

\* Map.prototype.set: an existing key keeps its place and takes the new
\* value, a new key is appended.
MapSet(m, k, v) ==
    IF MapHas(m, k)
    THEN [m EXCEPT ![MapIndex(m, k)] = [key |-> k, val |-> v]]
    ELSE Append(m, [key |-> k, val |-> v])

\* A removal that takes the oldest entry whatever the key.
MapDeleteFirst(m, k) == IF m = << >> THEN m ELSE Tail(m)

\* Map.prototype.delete.
MapDelete(m, k) == SelectSeq(m, LAMBDA e : e.key # k)

MapValues(m) == [i \in 1..Len(m) |-> m[i].val]

Range(s) == {s[i] : i \in 1..Len(s)}

(***************************************************************************)
(* The scene graph                                                         *)
(***************************************************************************)
VARIABLES
    scene,             \* the nodes below the root, in traversal order
    objs,              \* node -> [type, name]: Object3D.type, Object3D.name
    pose,              \* node -> [rx, ry, rz, position, scale]: the joint's transform
    boneCache,         \* BoneFinder.boneCache
    activeAnimations,  \* BoneAnimationController.activeAnimations
    insOrder,          \* history: identifiers by earliest still-live registration
    registered,        \* history: identifier -> what was last registered under it
    lastRegistered,    \* history: identifier of the latest registerAnimation call
    warned,            \* history: identifiers an update found unresolved and that
                       \* were not registered or unregistered since
    pc,                \* "update" while update() is on the stack; "returned" or
                       \* "threw" right after it; "idle" otherwise
    cursor,            \* number of table entries the running update has passed
    frame,             \* arguments of the running (or last) update call
    startAnimations,   \* activeAnimations when that update was called
    startPose,         \* pose when that update was called
    calls,             \* animation-function invocations of that update
    warnings,          \* console.warn calls of that update
    last               \* the latest call from the host and what it returned

sceneVars == << scene, objs, pose >>
updateVars == << pc, cursor, frame, startAnimations, startPose, calls, warnings >>
controllerVars == << activeAnimations, insOrder, registered, lastRegistered, warned >>
vars == << scene, objs, pose, boneCache, activeAnimations, insOrder,
           registered, lastRegistered, warned, pc, cursor, frame, startAnimations, startPose,
           calls, warnings, last >>

\* The not-found value; nodes are numbered from 1.
Null == 0

sEmpty == << >>
sHead == << "H", "e", "a", "d" >>
shead == << "h", "e", "a", "d" >>
sHEAD == << "H", "E", "A", "D" >>
sSpine == << "S", "p", "i", "n", "e" >>
sspine == << "s", "p", "i", "n", "e" >>
sskull == << "s", "k", "u", "l", "l" >>
sjaw == << "j", "a", "w" >>
sEaPadded == << " ", "E", "a", " " >>
sBlank == << " ", " " >>

\* Names a node of a loaded model may carry (Object3D.name defaults to '').
JointNames == { sEmpty, sHead, shead, sSpine }

Digits == << "1", "2", "3", "4", "5", "6", "7", "8", "9" >>

\* Object3D.uuid: lower-case hexadecimal digits and dashes, unique per node.
UUID(n) ==
    IF n = 1 THEN << "e", "a", "-", "1" >> ELSE << "b", "0", "-", Digits[n] >>

IsBone(o, n) == o[n].type = "Bone"

\* The joints the traversal of the scene visits, in order.
Joints(sc, o) == SelectSeq(sc, LAMBDA n : IsBone(o, n))

(***************************************************************************)
(* BoneFinder                                                              *)
(***************************************************************************)
\* A traversal step that keeps the first joint cached under a name.
CacheNodeKeepFirst(cache, o, n) ==
    IF IsBone(o, n)
    THEN LET k == ToLowerCase(o[n].name)
         IN  MapSet(IF MapHas(cache, k) THEN cache ELSE MapSet(cache, k, n), UUID(n), n)
    ELSE cache

\* A traversal step that caches a node of any type.
CacheNodeAnyType(cache, o, n) ==
    MapSet(MapSet(cache, ToLowerCase(o[n].name), n), UUID(n), n)

\* The two set calls of rebuildCache for one visited node.
CacheNode(cache, o, n) ==
    IF IsBone(o, n)
    THEN MapSet(MapSet(cache, ToLowerCase(o[n].name), n), UUID(n), n)
    ELSE cache

RECURSIVE TraverseInto(_, _, _)
TraverseInto(cache, sc, o) ==
    IF sc = << >> THEN cache
    ELSE TraverseInto(CacheNode(cache, o, Head(sc)), Tail(sc), o)

\* rebuildCache: clear, then traverse.
RebuildCacheOf(sc, o) == TraverseInto(<< >>, sc, o)

\* boneCache.get(k) || null (a Bone object is never falsy).
GetOrNull(cache, k) == IF MapHas(cache, k) THEN MapGet(cache, k) ELSE Null

FindByName(cache, name) == GetOrNull(cache, ToLowerCase(name))

FindByUUID(cache, uuid) == GetOrNull(cache, uuid)

\* A test that looks at the cache key alone.
EntryMatchesKeyOnly(e, o, pattern) ==
    Includes(ToLowerCase(e.key), Trim(ToLowerCase(pattern)))

\* A test that looks at the joint's present name alone.
EntryMatchesNameOnly(e, o, pattern) ==
    Includes(ToLowerCase(o[e.val].name), Trim(ToLowerCase(pattern)))

\* The test of one cache entry against one candidate.
EntryMatches(e, o, pattern) ==
    \/ Includes(ToLowerCase(e.key), Trim(ToLowerCase(pattern)))
    \/ Includes(ToLowerCase(o[e.val].name), Trim(ToLowerCase(pattern)))

\* A search that tries the candidates one after the other, each against
\* the whole cache.
RECURSIVE FindByPatternsInPriority(_, _, _)
FindByPatternsInPriority(cache, o, patterns) ==
    IF patterns = << >> THEN Null
    ELSE LET hits == SelectSeq(cache, LAMBDA e :
                         \/ Includes(ToLowerCase(e.key), Trim(ToLowerCase(Head(patterns))))
                         \/ Includes(ToLowerCase(o[e.val].name),
                                     Trim(ToLowerCase(Head(patterns)))))
         IN  IF hits # << >> THEN Head(hits).val
             ELSE FindByPatternsInPriority(cache, o, Tail(patterns))

\* findByPatterns: the first entry, in cache order, that some candidate
\* matches.
RECURSIVE FindByPatterns(_, _, _)
FindByPatterns(cache, o, patterns) ==
    IF cache = << >> THEN Null
    ELSE IF \E i \in 1..Len(patterns) : EntryMatches(Head(cache), o, patterns[i])
         THEN Head(cache).val
         ELSE FindByPatterns(Tail(cache), o, patterns)

\* getAllBones: Array.from(boneCache.values()).
GetAllBones(cache) == MapValues(cache)


\* The fragment of RegExp syntax the model reads: literal characters, "."
\* for any character, a leading "^", a trailing "$", and parentheses, which
\* group without changing what test() accepts.  new RegExp throws a
\* SyntaxError for unbalanced parentheses.
RECURSIVE ParenDepth(_, _)
ParenDepth(p, d) ==
    IF d < 0 \/ p = << >> THEN d
    ELSE ParenDepth(Tail(p), IF Head(p) = "(" THEN d + 1
                             ELSE IF Head(p) = ")" THEN d - 1 ELSE d)

RegExpIsValid(p) == ParenDepth(p, 0) = 0

RegExpBody(p) ==
    LET noParens == SelectSeq(p, LAMBDA c : c \notin {"(", ")"})
        noStart == IF noParens # << >> /\ Head(noParens) = "^"
                   THEN Tail(noParens) ELSE noParens
    IN  IF noStart # << >> /\ noStart[Len(noStart)] = "$"
        THEN SubSeq(noStart, 1, Len(noStart) - 1) ELSE noStart

RegExpAtStart(p) ==
    LET noParens == SelectSeq(p, LAMBDA c : c \notin {"(", ")"})
    IN  noParens # << >> /\ Head(noParens) = "^"

RegExpAtEnd(p) ==
    LET noParens == SelectSeq(p, LAMBDA c : c \notin {"(", ")"})
    IN  noParens # << >> /\ noParens[Len(noParens)] = "$"

\* new RegExp(p, 'i').test(key)
RegExpTest(p, key) ==
    LET body == RegExpBody(p)
    IN  \E i \in 0..(Len(key) - Len(body)) :
            /\ RegExpAtStart(p) => i = 0
            /\ RegExpAtEnd(p) => i + Len(body) = Len(key)
            /\ \A j \in 1..Len(body) :
                   \/ body[j] = "."
                   \/ LowerChar(body[j]) = LowerChar(key[i + j])

\* A search that stops at the first key that matches.
FindAllByPatternFirst(cache, pattern) ==
    LET hits == MapValues(SelectSeq(cache, LAMBDA e : RegExpTest(pattern, e.key)))
    IN  IF hits = << >> THEN hits ELSE << Head(hits) >>

\* findAllByPattern, once the RegExp is constructed.
FindAllByPattern(cache, pattern) ==
    MapValues(SelectSeq(cache, LAMBDA e : RegExpTest(pattern, e.key)))

(***************************************************************************)
(* SkeletonMap                                                             *)
(***************************************************************************)
\* bone_system.ts line :175
HipsCandidates ==
    << <<"H", "i", "p", "s">>,
       <<"P", "e", "l", "v", "i", "s">>,
       <<"R", "o", "o", "t">>,
       <<"m", "i", "x", "a", "m", "o", "r", "i", "g", "H", "i", "p", "s">>,
       <<"m", "i", "x", "a", "m", "o", "r", "i", "g", "_", "H", "i", "p", "s">>,
       <<"b", "i", "p", "0", "0", "1", "-", "p", "e", "l", "v", "i", "s">>,
       <<"b", "i", "p", "0", "0", "1", "_", "p", "e", "l", "v", "i", "s">> >>

\* bone_system.ts line :178
SpineCandidates ==
    << <<"S", "p", "i", "n", "e">>,
       <<"S", "p", "i", "n", "e", "1">>,
       <<"S", "p", "i", "n", "e", "0", "1">>,
       <<"m", "i", "x", "a", "m", "o", "r", "i", "g", "S", "p", "i", "n", "e">>,
       <<"m", "i", "x", "a", "m", "o", "r", "i", "g", "_", "S", "p", "i", "n", "e">>,
       <<"b", "i", "p", "0", "0", "1", "-", "s", "p", "i", "n", "e">>,
       <<"b", "i", "p", "0", "0", "1", "_", "s", "p", "i", "n", "e">> >>

\* bone_system.ts line :179
ChestCandidates ==
    << <<"C", "h", "e", "s", "t">>,
       <<"S", "p", "i", "n", "e", "2">>,
       <<"S", "p", "i", "n", "e", "0", "2">>,
       <<"U", "p", "p", "e", "r", "C", "h", "e", "s", "t">>,
       <<"m", "i", "x", "a", "m", "o", "r", "i", "g", "S", "p", "i", "n", "e", "1">>,
       <<"m", "i", "x", "a", "m", "o", "r", "i", "g", "S", "p", "i", "n", "e", "2">>,
       <<"m", "i", "x", "a", "m", "o", "r", "i", "g", "_", "S", "p", "i", "n", "e", "1">>,
       <<"m", "i", "x", "a", "m", "o", "r", "i", "g", "_", "S", "p", "i", "n", "e", "2">>,
       <<"b", "i", "p", "0", "0", "1", "-", "s", "p", "i", "n", "e", "1">>,
       <<"b", "i", "p", "0", "0", "1", "_", "s", "p", "i", "n", "e", "1">> >>

\* bone_system.ts line :182
NeckCandidates ==
    << <<"N", "e", "c", "k">>,
       <<"N", "e", "c", "k", "1">>,
       <<"m", "i", "x", "a", "m", "o", "r", "i", "g", "N", "e", "c", "k">>,
       <<"m", "i", "x", "a", "m", "o", "r", "i", "g", "_", "N", "e", "c", "k">>,
       <<"b", "i", "p", "0", "0", "1", "-", "n", "e", "c", "k">>,
       <<"b", "i", "p", "0", "0", "1", "_", "n", "e", "c", "k">> >>

\* bone_system.ts line :183
HeadCandidates ==
    << <<"H", "e", "a", "d">>,
       <<"H", "e", "a", "d", "1">>,
       <<"m", "i", "x", "a", "m", "o", "r", "i", "g", "H", "e", "a", "d">>,
       <<"m", "i", "x", "a", "m", "o", "r", "i", "g", "_", "H", "e", "a", "d">>,
       <<"b", "i", "p", "0", "0", "1", "-", "h", "e", "a", "d">>,
       <<"b", "i", "p", "0", "0", "1", "_", "h", "e", "a", "d">> >>

\* bone_system.ts line :186
LeftArmCandidates ==
    << <<"L", "e", "f", "t", "A", "r", "m">>,
       <<"L", "_", "A", "r", "m">>,
       <<"L", "_", "U", "p", "p", "e", "r", "A", "r", "m">>,
       <<"m", "i", "x", "a", "m", "o", "r", "i", "g", "L", "e", "f", "t", "A", "r", "m">>,
       <<"m", "i", "x", "a", "m", "o", "r", "i", "g", "_", "L", "e", "f", "t", "A", "r", "m">>,
       <<"b", "i", "p", "0", "0", "1", "-", "l", "-", "u", "p", "p", "e", "r", "a", "r", "m">>,
       <<"b", "i", "p", "0", "0", "1", "_", "l", "_", "u", "p", "p", "e", "r", "a", "r", "m">> >>

\* bone_system.ts line :187
LeftForeArmCandidates ==
    << <<"L", "e", "f", "t", "F", "o", "r", "e", "A", "r", "m">>,
       <<"L", "_", "F", "o", "r", "e", "A", "r", "m">>,
       <<"L", "_", "L", "o", "w", "e", "r", "A", "r", "m">>,
       <<"m", "i", "x", "a", "m", "o", "r", "i", "g", "L", "e", "f", "t", "F", "o", "r", "e", "A", "r", "m">>,
       <<"m", "i", "x", "a", "m", "o", "r", "i", "g", "_", "L", "e", "f", "t", "F", "o", "r", "e", "A", "r", "m">>,
       <<"b", "i", "p", "0", "0", "1", "-", "l", "-", "f", "o", "r", "e", "a", "r", "m">>,
       <<"b", "i", "p", "0", "0", "1", "_", "l", "_", "f", "o", "r", "e", "a", "r", "m">> >>

\* bone_system.ts line :188
LeftHandCandidates ==
    << <<"L", "e", "f", "t", "H", "a", "n", "d">>,
       <<"L", "_", "H", "a", "n", "d">>,
       <<"L", "_", "W", "r", "i", "s", "t">>,
       <<"m", "i", "x", "a", "m", "o", "r", "i", "g", "L", "e", "f", "t", "H", "a", "n", "d">>,
       <<"m", "i", "x", "a", "m", "o", "r", "i", "g", "_", "L", "e", "f", "t", "H", "a", "n", "d">>,
       <<"b", "i", "p", "0", "0", "1", "-", "l", "-", "h", "a", "n", "d">>,
       <<"b", "i", "p", "0", "0", "1", "_", "l", "_", "h", "a", "n", "d">> >>

\* bone_system.ts line :191
RightArmCandidates ==
    << <<"R", "i", "g", "h", "t", "A", "r", "m">>,
       <<"R", "_", "A", "r", "m">>,
       <<"R", "_", "U", "p", "p", "e", "r", "A", "r", "m">>,
       <<"m", "i", "x", "a", "m", "o", "r", "i", "g", "R", "i", "g", "h", "t", "A", "r", "m">>,
       <<"m", "i", "x", "a", "m", "o", "r", "i", "g", "_", "R", "i", "g", "h", "t", "A", "r", "m">>,
       <<"b", "i", "p", "0", "0", "1", "-", "r", "-", "u", "p", "p", "e", "r", "a", "r", "m">>,
       <<"b", "i", "p", "0", "0", "1", "_", "r", "_", "u", "p", "p", "e", "r", "a", "r", "m">> >>

\* bone_system.ts line :192
RightForeArmCandidates ==
    << <<"R", "i", "g", "h", "t", "F", "o", "r", "e", "A", "r", "m">>,
       <<"R", "_", "F", "o", "r", "e", "A", "r", "m">>,
       <<"R", "_", "L", "o", "w", "e", "r", "A", "r", "m">>,
       <<"m", "i", "x", "a", "m", "o", "r", "i", "g", "R", "i", "g", "h", "t", "F", "o", "r", "e", "A", "r", "m">>,
       <<"m", "i", "x", "a", "m", "o", "r", "i", "g", "_", "R", "i", "g", "h", "t", "F", "o", "r", "e", "A", "r", "m">>,
       <<"b", "i", "p", "0", "0", "1", "-", "r", "-", "f", "o", "r", "e", "a", "r", "m">>,
       <<"b", "i", "p", "0", "0", "1", "_", "r", "_", "f", "o", "r", "e", "a", "r", "m">> >>

\* bone_system.ts line :193
RightHandCandidates ==
    << <<"R", "i", "g", "h", "t", "H", "a", "n", "d">>,
       <<"R", "_", "H", "a", "n", "d">>,
       <<"R", "_", "W", "r", "i", "s", "t">>,
       <<"m", "i", "x", "a", "m", "o", "r", "i", "g", "R", "i", "g", "h", "t", "H", "a", "n", "d">>,
       <<"m", "i", "x", "a", "m", "o", "r", "i", "g", "_", "R", "i", "g", "h", "t", "H", "a", "n", "d">>,
       <<"b", "i", "p", "0", "0", "1", "-", "r", "-", "h", "a", "n", "d">>,
       <<"b", "i", "p", "0", "0", "1", "_", "r", "_", "h", "a", "n", "d">> >>


Roles ==
    { "hips", "spine", "chest", "neck", "head", "leftArm", "leftForeArm",
      "leftHand", "rightArm", "rightForeArm", "rightHand" }

\* new SkeletonMap(scene): a private BoneFinder built on the scene as it is,
\* then one findByPatterns per role.
SkeletonMapOf(sc, o) ==
    LET finder == RebuildCacheOf(sc, o)
    IN  [ hips         |-> FindByPatterns(finder, o, HipsCandidates),
          spine        |-> FindByPatterns(finder, o, SpineCandidates),
          chest        |-> FindByPatterns(finder, o, ChestCandidates),
          neck         |-> FindByPatterns(finder, o, NeckCandidates),
          head         |-> FindByPatterns(finder, o, HeadCandidates),
          leftArm      |-> FindByPatterns(finder, o, LeftArmCandidates),
          leftForeArm  |-> FindByPatterns(finder, o, LeftForeArmCandidates),
          leftHand     |-> FindByPatterns(finder, o, LeftHandCandidates),
          rightArm     |-> FindByPatterns(finder, o, RightArmCandidates),
          rightForeArm |-> FindByPatterns(finder, o, RightForeArmCandidates),
          rightHand    |-> FindByPatterns(finder, o, RightHandCandidates) ]

(***************************************************************************)
(* Animation functions                                                     *)
(***************************************************************************)
\* Elapsed times the frame driver passes, in seconds, and the frame delta in
\* milliseconds.
Times == { 1 }
Deltas == { 16 }

\* The context argument the frame driver builds.
Contexts == { [given |-> TRUE, isSpeaking |-> TRUE] }

\* Math.sin(t * 2) in thousandths, for the times of the model.
Sin2t(t) == IF t = 1 THEN 909 ELSE 0

\* BONE_ANIMATION_LIBRARY entries that set rotation.x outright.
JawSmile == [kind |-> "library", arg |-> "Jaw_Smile"]
HeadNod == [kind |-> "library", arg |-> "Head_Nod"]

\* Functions a caller may register besides the library's: one that throws,
\* and closures over the controller that call back into it.
Throws == [kind |-> "throws", arg |-> ""]
Unregisters(id) == [kind |-> "unregisters", arg |-> id]
Reregisters(id) == [kind |-> "reregisters", arg |-> id]
Clears == [kind |-> "clears", arg |-> ""]

\* What a library function writes to the joint it is given.
LibraryWrite(fn, p, bone, t) ==
    IF fn = JawSmile THEN [p EXCEPT ![bone].rx = -50]
    ELSE IF fn = HeadNod THEN [p EXCEPT ![bone].rx = (Sin2t(t) * 3) \div 10]
    ELSE p

(***************************************************************************)
(* BoneAnimationController                                                 *)
(***************************************************************************)
Ids == { "X", "Y", "Z" }

None == [boneName |-> << >>, animation |-> [kind |-> "none", arg |-> ""]]

\* A registration that takes the identifier out and puts it in anew.
RegisterAnimationReinserts(table, id, boneName, animation) ==
    Append(SelectSeq(table, LAMBDA x : x.key # id),
           [key |-> id, val |-> [boneName |-> boneName, animation |-> animation]])

\* registerAnimation
RegisterAnimation(table, id, boneName, animation) ==
    MapSet(table, id, [boneName |-> boneName, animation |-> animation])

\* unregisterAnimation
UnregisterAnimation(table, id) == MapDelete(table, id)

\* A clearing that spares the oldest entry.
ClearAllButFirst(table) == IF table = << >> THEN table ELSE << Head(table) >>

\* clearAll: Map.prototype.clear.
ClearAll(table) == << >>

\* The joint update resolves for one registration.
Resolve(cache, o, entry) == FindByPatterns(cache, o, << entry.val.boneName >>)

\* The registerAnimation calls the host makes.
RegistrationCalls ==
    { [id |-> "X", boneName |-> shead, animation |-> JawSmile],
      [id |-> "X", boneName |-> sjaw, animation |-> HeadNod],
      [id |-> "X", boneName |-> sspine, animation |-> Throws],
      [id |-> "Y", boneName |-> shead, animation |-> HeadNod],
      [id |-> "Y", boneName |-> sEaPadded, animation |-> JawSmile],
      [id |-> "Y", boneName |-> shead, animation |-> Unregisters("Z")],
      [id |-> "Z", boneName |-> shead, animation |-> JawSmile],
      [id |-> "Z", boneName |-> sspine, animation |-> Clears],
      [id |-> "Z", boneName |-> shead, animation |-> Reregisters("Z")] }

(***************************************************************************)
(* Initial states: the scene is loaded and BoneFinder / the controller are *)
(* constructed on it (the constructor builds the cache).                   *)
(***************************************************************************)
DefaultObj == [type |-> "Bone", name |-> sEmpty]

\* A joint at rest: rotation.x, .y, .z in thousandths of a radian, and its
\* position and scale vectors in thousandths.
RestPose ==
    [n \in Nodes |->
        [rx |-> 0, ry |-> 0, rz |-> 0,
         position |-> [x |-> 0, y |-> 0, z |-> 0],
         scale |-> [x |-> 1000, y |-> 1000, z |-> 1000]]]

NoFrame == [t |-> 0, delta |-> 0, context |-> [given |-> FALSE, isSpeaking |-> FALSE]]

NoCall == [op |-> "none", arg |-> << >>, ret |-> << >>, threw |-> FALSE]

Constructed ==
    /\ pose = RestPose
    /\ boneCache = RebuildCacheOf(scene, objs)
    /\ activeAnimations = << >>
    /\ insOrder = << >>
    /\ registered = [id \in Ids |-> None]
    /\ lastRegistered = ""
    /\ warned = { }
    /\ pc = "idle"
    /\ cursor = 0
    /\ frame = NoFrame
    /\ startAnimations = << >>
    /\ startPose = RestPose
    /\ calls = << >>
    /\ warnings = 0
    /\ last = NoCall

\* What a node below the root can be: a joint with one of the names, or a
\* node of another type (its name is never read).
NodeKinds ==
    [type : {"Bone"}, name : JointNames] \cup {[type |-> "SkinnedMesh", name |-> sEmpty]}

\* Any scene of at most MaxNodes nodes.
InitFinder ==
    /\ \E k \in 0..MaxNodes : scene = [i \in 1..k |-> i]
    /\ objs \in [Nodes -> NodeKinds]
    /\ \A n \in Nodes : n \notin Range(scene) => objs[n] = DefaultObj
    /\ Constructed

\* A skeleton of joints named as in the test fixtures.
Init ==
    /\ \E k \in 0..MaxNodes : scene = [i \in 1..k |-> i]
    /\ objs \in [Nodes -> [type : {"Bone"}, name : {sEmpty, sHead, sSpine}]]
    /\ \A n \in Nodes : objs[n].name = sEmpty <=> n \notin Range(scene)
    /\ Constructed

(***************************************************************************)
(* Calls on a BoneFinder                                                   *)
(***************************************************************************)
NameArguments ==
    { sEmpty, sHead, shead, sHEAD, sSpine, sskull, UUID(1), UUID(2) }

UUIDArguments == { UUID(1), UUID(2), sEmpty, shead, sHead }

PatternArguments ==
    { << >>, << shead, sskull >>, << sskull, shead >>, << sskull >>,
      << sEaPadded >>, << sBlank >>, << sspine, shead >>, << sEmpty >> }

RegExpArguments ==
    { sEmpty, shead, sHEAD, << "^", "h", "e" >>, << "d", "$" >>, << "h", ".", "a" >>,
      << "(", "e", "a", ")" >>, << "(" >>, << "^", "$" >> }

\* Lookups read the cache and change nothing, so a lookup that follows
\* another lookup sees what the first one saw: the model takes each lookup
\* from a state that is not itself the record of a lookup.
Observing == last = NoCall

Returned(op, arg, ret) == [op |-> op, arg |-> arg, ret |-> ret, threw |-> FALSE]

Threw(op, arg) == [op |-> op, arg |-> arg, ret |-> << >>, threw |-> TRUE]

FindByNameCall(name) ==
    /\ Observing
    /\ last' = Returned("findByName", name, FindByName(boneCache, name))
    /\ UNCHANGED << sceneVars, boneCache, controllerVars, updateVars >>

FindByUUIDCall(uuid) ==
    /\ Observing
    /\ last' = Returned("findByUUID", uuid, FindByUUID(boneCache, uuid))
    /\ UNCHANGED << sceneVars, boneCache, controllerVars, updateVars >>

FindByPatternsCall(patterns) ==
    /\ Observing
    /\ last' = Returned("findByPatterns", patterns,
                        FindByPatterns(boneCache, objs, patterns))
    /\ UNCHANGED << sceneVars, boneCache, controllerVars, updateVars >>

FindAllByPatternCall(pattern) ==
    /\ Observing
    /\ last' = IF RegExpIsValid(pattern)
               THEN Returned("findAllByPattern", pattern,
                             FindAllByPattern(boneCache, pattern))
               ELSE Threw("findAllByPattern", pattern)
    /\ UNCHANGED << sceneVars, boneCache, controllerVars, updateVars >>

GetAllBonesCall ==
    /\ Observing
    /\ last' = Returned("getAllBones", << >>, GetAllBones(boneCache))
    /\ UNCHANGED << sceneVars, boneCache, controllerVars, updateVars >>

NewSkeletonMap ==
    /\ Observing
    /\ last' = Returned("SkeletonMap", << >>, SkeletonMapOf(scene, objs))
    /\ UNCHANGED << sceneVars, boneCache, controllerVars, updateVars >>

\* What the model keeps of an update call is reset by the next host call.
ForgetUpdate ==
    /\ pc' = "idle"
    /\ cursor' = 0
    /\ frame' = NoFrame
    /\ startAnimations' = << >>
    /\ startPose' = RestPose
    /\ calls' = << >>
    /\ warnings' = 0

\* BoneFinder.rebuildCache / BoneAnimationController.rebuildCache
RebuildCache ==
    /\ pc # "update"
    /\ boneCache' = RebuildCacheOf(scene, objs)
    /\ last' = NoCall
    /\ ForgetUpdate
    /\ UNCHANGED << sceneVars, controllerVars >>

(***************************************************************************)
(* The host renaming a joint after the cache was built (Object3D.name is a *)
(* plain writable field).  The model follows one stale change at a time:   *)
(* the next one comes after a rebuild.                                     *)
(***************************************************************************)
Fresh == boneCache = RebuildCacheOf(scene, objs)

Rename(n, name) ==
    /\ Fresh
    /\ pc # "update"
    /\ n \in Range(scene)
    /\ IsBone(objs, n)
    /\ objs[n].name # name
    /\ objs' = [objs EXCEPT ![n].name = name]
    /\ last' = NoCall
    /\ UNCHANGED << scene, pose, boneCache, controllerVars, updateVars >>

\* The nodes that are neither in the scene nor held by the cache.
Unused == { n \in Nodes : n \notin Range(scene) /\ \A i \in 1..Len(boneCache) : boneCache[i].val # n }

\* The host adding a new joint below the root after the cache was built
\* (one stale change at a time, as for Rename).
AddNode(name) ==
    /\ Fresh
    /\ pc # "update"
    /\ Unused # { }
    /\ LET n == CHOOSE m \in Unused : \A k \in Unused : m <= k
       IN  /\ scene' = Append(scene, n)
           /\ objs' = [objs EXCEPT ![n] = [type |-> "Bone", name |-> name]]
           /\ pose' = [pose EXCEPT ![n] = RestPose[n]]
    /\ last' = NoCall
    /\ ForgetUpdate
    /\ UNCHANGED << boneCache, controllerVars >>

\* The host taking a joint out of the scene after the cache was built; the
\* Bone object lives on wherever it is referenced.
RemoveNode(n) ==
    /\ Fresh
    /\ pc # "update"
    /\ n \in Range(scene)
    /\ scene' = SelectSeq(scene, LAMBDA m : m # n)
    /\ last' = NoCall
    /\ ForgetUpdate
    /\ UNCHANGED << objs, pose, boneCache, controllerVars >>

NextFinder ==
    \/ \E name \in NameArguments : FindByNameCall(name)
    \/ \E uuid \in UUIDArguments : FindByUUIDCall(uuid)
    \/ \E patterns \in PatternArguments : FindByPatternsCall(patterns)
    \/ \E pattern \in RegExpArguments : FindAllByPatternCall(pattern)
    \/ GetAllBonesCall
    \/ NewSkeletonMap
    \/ RebuildCache
    \/ \E n \in Nodes, name \in JointNames : Rename(n, name)

SpecFinder == InitFinder /\ [][NextFinder]_vars

(***************************************************************************)
(* SkeletonMap on rigs of the naming conventions it lists                  *)
(***************************************************************************)
smixamorigHead == << "m", "i", "x", "a", "m", "o", "r", "i", "g", "H", "e", "a", "d" >>
sbip001_head == << "b", "i", "p", "0", "0", "1", "_", "h", "e", "a", "d" >>
sHeadTop_End == << "H", "e", "a", "d", "T", "o", "p", "_", "E", "n", "d" >>
sLeftArm == << "L", "e", "f", "t", "A", "r", "m" >>
sHips == << "H", "i", "p", "s" >>
sRightHand == << "R", "i", "g", "h", "t", "H", "a", "n", "d" >>
sHead_Neck == << "H", "e", "a", "d", "_", "N", "e", "c", "k" >>

\* Joint names of the rigs: a Mixamo head and its end joint, a Biped head,
\* hips, a spine, an arm, a hand, an unnamed joint, and one joint for head
\* and neck together.
RigNames ==
    { sEmpty, smixamorigHead, sbip001_head, sHeadTop_End, sHips, sSpine, sLeftArm,
      sRightHand, sHead_Neck }

RigKinds ==
    [type : {"Bone"}, name : RigNames] \cup {[type |-> "SkinnedMesh", name |-> sEmpty]}

\* Any rig of at most MaxNodes nodes.
InitSkeleton ==
    /\ \E k \in 0..MaxNodes : scene = [i \in 1..k |-> i]
    /\ objs \in [Nodes -> RigKinds]
    /\ \A n \in Nodes : n \notin Range(scene) => objs[n] = DefaultObj
    /\ Constructed

\* Math.sin(t) in thousandths, for the times of the model.
Sin1t(t) == IF t = 1 THEN 841 ELSE 0

\* Elapsed times a pose is applied at, in seconds.
PoseTimes == { 0, 1 }

\* A helper that writes to the root joint when it is given no joint.
AnimateBoneUnguarded(p, bone, rotation) ==
    LET b == IF bone = Null THEN 1 ELSE bone
    IN  [p EXCEPT ![b] = [@ EXCEPT
            !.rx = IF "x" \in DOMAIN rotation THEN rotation.x ELSE @,
            !.ry = IF "y" \in DOMAIN rotation THEN rotation.y ELSE @,
            !.rz = IF "z" \in DOMAIN rotation THEN rotation.z ELSE @]]

\* A helper that adds the rotation to the joint's own.
AnimateBoneAdds(p, bone, rotation) ==
    IF bone = Null THEN p
    ELSE [p EXCEPT ![bone] = [@ EXCEPT
             !.rx = IF "x" \in DOMAIN rotation THEN @ + rotation.x ELSE @,
             !.ry = IF "y" \in DOMAIN rotation THEN @ + rotation.y ELSE @,
             !.rz = IF "z" \in DOMAIN rotation THEN @ + rotation.z ELSE @]]

\* animateBone: nothing for an absent joint; otherwise each of x, y, z that
\* the rotation argument defines is assigned.
AnimateBone(p, bone, rotation) ==
    IF bone = Null THEN p
    ELSE [p EXCEPT ![bone] = [@ EXCEPT
             !.rx = IF "x" \in DOMAIN rotation THEN rotation.x ELSE @,
             !.ry = IF "y" \in DOMAIN rotation THEN rotation.y ELSE @,
             !.rz = IF "z" \in DOMAIN rotation THEN rotation.z ELSE @]]

\* FULL_BODY_ANIMATIONS: the animateBone calls of each pose, in order.
Defiant_Flirty(t) ==
    LET breathing == (Sin2t(t) * 50) \div 1000
    IN  << [role |-> "hips", rotation |-> [z |-> -100 + breathing \div 10, y |-> 100]],
           [role |-> "spine", rotation |-> [z |-> 100, x |-> 100]],
           [role |-> "neck", rotation |-> [x |-> 100, y |-> 100]],
           [role |-> "head",
            rotation |-> [z |-> -200 + (Sin1t(t) * 20) \div 1000, x |-> 200, y |-> -200]],
           [role |-> "leftArm", rotation |-> [z |-> 1000, x |-> 800, y |-> -500]],
           [role |-> "leftForeArm", rotation |-> [z |-> 100, x |-> 2200, y |-> 500]],
           [role |-> "rightArm", rotation |-> [z |-> -1000, x |-> 800, y |-> 500]],
           [role |-> "rightForeArm", rotation |-> [x |-> 2200, y |-> -500]],
           [role |-> "leftHand", rotation |-> [x |-> 200]],
           [role |-> "rightHand", rotation |-> [x |-> 200]] >>

Power_Pose(t) ==
    << [role |-> "spine", rotation |-> [x |-> -100 + (Sin1t(t) * 20) \div 1000]],
       [role |-> "leftArm", rotation |-> [z |-> 500, x |-> -200]],
       [role |-> "leftForeArm", rotation |-> [x |-> 1500, y |-> -500]],
       [role |-> "rightArm", rotation |-> [z |-> -500, x |-> -200]],
       [role |-> "rightForeArm", rotation |-> [x |-> 1500, y |-> 500]],
       [role |-> "head", rotation |-> [x |-> -100]] >>

Thinking_Pose(t) ==
    << [role |-> "rightArm", rotation |-> [x |-> 1500, z |-> -200]],
       [role |-> "rightForeArm", rotation |-> [x |-> 2500, y |-> 1500]],
       [role |-> "rightHand", rotation |-> [x |-> 500]],
       [role |-> "leftArm", rotation |-> [x |-> 500, z |-> 500]],
       [role |-> "leftForeArm", rotation |-> [x |-> 1500, y |-> -1000]],
       [role |-> "head", rotation |-> [z |-> 100, x |-> 200]] >>

PoseNames == { "Defiant_Flirty", "Power_Pose", "Thinking_Pose" }

PoseSteps(name, t) ==
    IF name = "Defiant_Flirty" THEN Defiant_Flirty(t)
    ELSE IF name = "Power_Pose" THEN Power_Pose(t)
    ELSE Thinking_Pose(t)

\* The body of a pose: its animateBone calls on the slots of skel, one
\* after the other.
RECURSIVE ApplySteps(_, _, _)
ApplySteps(p, skel, steps) ==
    IF steps = << >> THEN p
    ELSE ApplySteps(AnimateBone(p, skel[Head(steps).role], Head(steps).rotation),
                    skel, Tail(steps))

FullBodyAnimation(name, skel, p, t) == ApplySteps(p, skel, PoseSteps(name, t))

\* FULL_BODY_ANIMATIONS[name](skeleton, t) on the SkeletonMap built last.
ApplyPose(name, t) ==
    /\ last.op = "SkeletonMap"
    /\ pose' = FullBodyAnimation(name, last.ret, pose, t)
    /\ UNCHANGED << scene, objs, boneCache, controllerVars, updateVars, last >>

NextSkeleton ==
    \/ NewSkeletonMap
    \/ \E name \in PoseNames, t \in PoseTimes : ApplyPose(name, t)

SpecSkeleton == InitSkeleton /\ [][NextSkeleton]_vars

(***************************************************************************)
(* BONE_ANIMATION_LIBRARY: each function on one joint j, at time t (in     *)
(* seconds) with the context it is given.  Angles, positions and scales    *)
(* are in thousandths.                                                     *)
(***************************************************************************)
\* Math.sin of an angle in thousandths of a radian, for the angles the
\* library takes the sine of at the times of the model.
SinMilli(a) ==
    IF a = 300 THEN 296
    ELSE IF a = 500 THEN 479
    ELSE IF a = 1500 THEN 997
    ELSE IF a = 2000 THEN 909
    ELSE IF a = 3000 THEN 141
    ELSE IF a = 4000 THEN -757
    ELSE IF a = 12000 THEN -537
    ELSE IF a = 15000 THEN 650
    ELSE 0

\* Math.cos, likewise.
CosMilli(a) == IF a = 2000 THEN -416 ELSE 1000

\* context?.isSpeaking
IsSpeaking(context) == context.given /\ context.isSpeaking

Jaw_Talk(j, t, context) ==
    LET freq == IF IsSpeaking(context) THEN 12 ELSE 0
        amplitude == IF IsSpeaking(context) THEN 150 ELSE 0
        targetX == (SinMilli(t * freq * 1000) * amplitude) \div 1000
    IN  [j EXCEPT !.rx = @ + ((targetX - @) * 3) \div 10]

Jaw_Smile(j, t) == [j EXCEPT !.rx = -50]

Eye_Blink(j, t) ==
    LET blinkCycle == (t * 1000) % 4000
        isBlinking == blinkCycle < 150
        targetScale == IF isBlinking THEN 100 ELSE 1000
    IN  [j EXCEPT !.scale.y = @ + ((targetScale - @) * 5) \div 10]

Eye_LookAt(j, t, context) == j

Head_Nod(j, t) == [j EXCEPT !.rx = (SinMilli(t * 2000) * 300) \div 1000]

Head_Shake(j, t) == [j EXCEPT !.ry = (SinMilli(t * 4000) * 400) \div 1000]

Head_Tilt(j, t) == [j EXCEPT !.rz = (SinMilli(t * 500) * 200) \div 1000]

\* A breathing that adds to the joint's height.
Head_BreathingAdds(j, t) ==
    LET breathCycle == SinMilli(t * 500)
    IN  [j EXCEPT !.position.y = @ + (breathCycle * 10) \div 1000,
                  !.rx = (breathCycle * 20) \div 1000]

Head_Breathing(j, t) ==
    LET breathCycle == SinMilli(t * 500)
    IN  [j EXCEPT !.position.y = (breathCycle * 10) \div 1000,
                  !.rx = (breathCycle * 20) \div 1000]

Spine_Breathe(j, t) ==
    LET breath == SinMilli(t * 500)
    IN  [j EXCEPT !.scale.x = 1000 + (breath * 30) \div 1000,
                  !.scale.z = 1000 + (breath * 30) \div 1000,
                  !.position.y = (breath * 5) \div 1000]

Chest_Puff(j, t) == [j EXCEPT !.rx = -100, !.scale.x = 1050]

Arm_Wave(j, t) == [j EXCEPT !.rz = (SinMilli(t * 4000) * 500) \div 1000 + 500]

Arm_Idle(j, t) == [j EXCEPT !.rx = (SinMilli(t * 300) * 50) \div 1000]

Hand_Gesture(j, t) ==
    [j EXCEPT !.rx = (SinMilli(t * 3000) * 200) \div 1000,
              !.rz = (CosMilli(t * 2000) * 150) \div 1000]

Finger_Curl(j, t) == [j EXCEPT !.rz = 1200]

Finger_Idle(j, t) ==
    [j EXCEPT !.rz = (SinMilli(t * 1500 + j.position.x) * 100) \div 1000]

Hip_Sway(j, t) == [j EXCEPT !.rz = (SinMilli(t * 500) * 50) \div 1000]

Reset(j) == RestPose[1]

\* BONE_ANIMATION_NAMES
LibraryNames ==
    { "Jaw_Talk", "Jaw_Smile", "Eye_Blink", "Eye_LookAt", "Head_Nod", "Head_Shake",
      "Head_Tilt", "Head_Breathing", "Spine_Breathe", "Chest_Puff", "Arm_Wave",
      "Arm_Idle", "Hand_Gesture", "Finger_Curl", "Finger_Idle", "Hip_Sway", "Reset" }

\* BONE_ANIMATION_LIBRARY[name](bone, t, delta, context): the joint after
\* the call.
BoneAnimation(name, j, t, context) ==
    CASE name = "Jaw_Talk" -> Jaw_Talk(j, t, context)
      [] name = "Jaw_Smile" -> Jaw_Smile(j, t)
      [] name = "Eye_Blink" -> Eye_Blink(j, t)
      [] name = "Eye_LookAt" -> Eye_LookAt(j, t, context)
      [] name = "Head_Nod" -> Head_Nod(j, t)
      [] name = "Head_Shake" -> Head_Shake(j, t)
      [] name = "Head_Tilt" -> Head_Tilt(j, t)
      [] name = "Head_Breathing" -> Head_Breathing(j, t)
      [] name = "Spine_Breathe" -> Spine_Breathe(j, t)
      [] name = "Chest_Puff" -> Chest_Puff(j, t)
      [] name = "Arm_Wave" -> Arm_Wave(j, t)
      [] name = "Arm_Idle" -> Arm_Idle(j, t)
      [] name = "Hand_Gesture" -> Hand_Gesture(j, t)
      [] name = "Finger_Curl" -> Finger_Curl(j, t)
      [] name = "Finger_Idle" -> Finger_Idle(j, t)
      [] name = "Hip_Sway" -> Hip_Sway(j, t)
      [] OTHER -> Reset(j)

\* Elapsed times the library is called at, in seconds, and the contexts:
\* none, not speaking, speaking.
LibraryTimes == { 0, 1 }

LibraryContexts ==
    { [given |-> FALSE, isSpeaking |-> FALSE],
      [given |-> TRUE, isSpeaking |-> FALSE],
      [given |-> TRUE, isSpeaking |-> TRUE] }

\* States the joint may be in when a library function is first called on
\* it: at rest, or left turned, moved or squeezed by something else.
JointStates ==
    { [RestPose[1] EXCEPT !.rx = rx, !.position.x = px, !.scale.y = sy] :
          rx \in {0, 100}, px \in {0, 500}, sy \in {1000, 550} }

\* One joint, in any of the states.
InitLibrary ==
    /\ scene = << 1 >>
    /\ objs = [n \in Nodes |-> [type |-> "Bone", name |-> IF n = 1 THEN sHead ELSE sEmpty]]
    /\ \E j \in JointStates : pose = [RestPose EXCEPT ![1] = j]
    /\ boneCache = RebuildCacheOf(scene, objs)
    /\ activeAnimations = << >>
    /\ insOrder = << >>
    /\ registered = [id \in Ids |-> None]
    /\ lastRegistered = ""
    /\ warned = { }
    /\ pc = "idle"
    /\ cursor = 0
    /\ frame = NoFrame
    /\ startAnimations = << >>
    /\ startPose = RestPose
    /\ calls = << >>
    /\ warnings = 0
    /\ last = NoCall

\* One call of a library function on the joint; a behaviour stays with the
\* function it called first.
LibraryCall(name, t, context) ==
    /\ last.op \in { "none", name }
    /\ pose' = [pose EXCEPT ![1] = BoneAnimation(name, @, t, context)]
    /\ last' = [op |-> name, arg |-> << t, context >>, ret |-> << >>, threw |-> FALSE]
    /\ UNCHANGED << scene, objs, boneCache, controllerVars, updateVars >>

NextLibrary ==
    \E name \in LibraryNames, t \in LibraryTimes, context \in LibraryContexts :
        LibraryCall(name, t, context)

SpecLibrary == InitLibrary /\ [][NextLibrary]_vars

(***************************************************************************)
(* The host's frame callback: clip playback, the controller's update, the  *)
(* manual jaw override, in the order of the callback's statements.  What   *)
(* the callback writes to the model's root group is left out: no lookup    *)
(* returns the root group.                                                 *)
(***************************************************************************)
sBip001Head == << "B", "i", "p", "0", "0", "1", "-", "H", "e", "a", "d" >>
sBip001Spine == << "B", "i", "p", "0", "0", "1", "-", "S", "p", "i", "n", "e" >>
sJaw == << "J", "a", "w" >>
sBip001HeadJaw == << "B", "i", "p", "0", "0", "1", "-", "H", "e", "a", "d", "-", "J", "a", "w" >>
sbip001head == << "b", "i", "p", "0", "0", "1", "-", "h", "e", "a", "d" >>
sbip001spine == << "b", "i", "p", "0", "0", "1", "-", "s", "p", "i", "n", "e" >>
smouth == << "m", "o", "u", "t", "h" >>
schin == << "c", "h", "i", "n" >>

\* Joint names of the models the host loads: a Biped head and spine, a
\* jaw, a jaw named under the head, an unnamed joint.
FrameRigNames == { sEmpty, sBip001Head, sBip001Spine, sJaw, sBip001HeadJaw }

\* The table after the host's three registerAnimation calls.
HostRegistrations ==
    << [key |-> "jaw_talking",
        val |-> [boneName |-> sbip001head,
                 animation |-> [kind |-> "library", arg |-> "Jaw_Talk"]]],
       [key |-> "head_breathing",
        val |-> [boneName |-> sbip001head,
                 animation |-> [kind |-> "library", arg |-> "Head_Breathing"]]],
       [key |-> "spine_breathe",
        val |-> [boneName |-> sbip001spine,
                 animation |-> [kind |-> "library", arg |-> "Spine_Breathe"]]] >>

\* The model is loaded, the controller constructed, the cache rebuilt and
\* the three animations registered.
InitFrame ==
    /\ \E k \in 0..MaxNodes : scene = [i \in 1..k |-> i]
    /\ objs \in [Nodes -> [type : {"Bone"}, name : FrameRigNames]]
    /\ \A n \in Nodes : n \notin Range(scene) => objs[n] = DefaultObj
    /\ pose = RestPose
    /\ boneCache = RebuildCacheOf(scene, objs)
    /\ activeAnimations = HostRegistrations
    /\ insOrder = << >>
    /\ registered = [id \in Ids |-> None]
    /\ lastRegistered = ""
    /\ warned = { }
    /\ pc = "idle"
    /\ cursor = 0
    /\ frame = NoFrame
    /\ startAnimations = << >>
    /\ startPose = RestPose
    /\ calls = << >>
    /\ warnings = 0
    /\ last = NoCall

\* mixer.update(delta): the playing clip sets the fields its tracks bind,
\* here rotation.x, position.y and scale.x of the joints in clip.
MixerUpdate(p, clip) ==
    [n \in Nodes |->
        IF n \in clip
        THEN [p[n] EXCEPT !.rx = 300, !.position.y = 50, !.scale.x = 900]
        ELSE p[n]]

\* update(t, delta, context) for a table of library functions, which
\* neither throw nor touch the table: entry after entry, each function on
\* the joint its selector resolves to.
RECURSIVE ControllerUpdate(_, _, _, _, _, _)
ControllerUpdate(table, cache, o, p, t, context) ==
    IF table = << >> THEN p
    ELSE LET bone == Resolve(cache, o, Head(table))
             q == IF bone = Null THEN p
                  ELSE [p EXCEPT ![bone] =
                           BoneAnimation(Head(table).val.animation.arg, @, t, context)]
         IN  ControllerUpdate(Tail(table), cache, o, q, t, context)

\* The joint the manual override looks up.
ManualJaw(cache, o) == FindByPatterns(cache, o, << sjaw, smouth, schin >>)

\* The manual override: while speaking, the jaw's rotation.x.
ManualOverride(p, cache, o, t, isSpeaking) ==
    LET jaw == ManualJaw(cache, o)
    IN  IF isSpeaking /\ jaw # Null
        THEN [p EXCEPT ![jaw].rx = (SinMilli(t * 15000) * 120) \div 1000]
        ELSE p

\* A frame starts: the callback reads the clock and updates the mixer.
FrameMixer(t, delta, isSpeaking, clip) ==
    /\ pc \in { "idle", "frame end" }
    /\ clip \subseteq Range(scene)
    /\ pose' = MixerUpdate(pose, clip)
    /\ startPose' = MixerUpdate(pose, clip)
    /\ frame' = [t |-> t, delta |-> delta,
                 context |-> [given |-> TRUE, isSpeaking |-> isSpeaking]]
    /\ last' = [op |-> "useFrame", arg |-> clip, ret |-> << >>, threw |-> FALSE]
    /\ pc' = "mixed"
    /\ UNCHANGED << scene, objs, boneCache, controllerVars, cursor, startAnimations,
                    calls, warnings >>

\* A callback that updates the controller and then the mixer.
FrameUpdateBeforeMixer ==
    /\ pc = "mixed"
    /\ pose' = MixerUpdate(ControllerUpdate(activeAnimations, boneCache, objs, pose,
                                            frame.t, frame.context), last.arg)
    /\ pc' = "updated"
    /\ UNCHANGED << scene, objs, boneCache, controllerVars, cursor, frame,
                    startAnimations, startPose, calls, warnings, last >>

\* boneController.current.update(t, delta, context)
FrameUpdate ==
    /\ pc = "mixed"
    /\ pose' = ControllerUpdate(activeAnimations, boneCache, objs, pose,
                                frame.t, frame.context)
    /\ pc' = "updated"
    /\ UNCHANGED << scene, objs, boneCache, controllerVars, cursor, frame,
                    startAnimations, startPose, calls, warnings, last >>

\* The manual override, and the end of the callback.
FrameOverride ==
    /\ pc = "updated"
    /\ pose' = ManualOverride(pose, boneCache, objs, frame.t, frame.context.isSpeaking)
    /\ pc' = "frame end"
    /\ UNCHANGED << scene, objs, boneCache, controllerVars, cursor, frame,
                    startAnimations, startPose, calls, warnings, last >>

NextFrame ==
    \/ \E t \in LibraryTimes, delta \in Deltas, isSpeaking \in BOOLEAN,
          clip \in SUBSET Nodes : FrameMixer(t, delta, isSpeaking, clip)
    \/ FrameUpdate
    \/ FrameOverride

SpecFrame == InitFrame /\ [][NextFrame]_vars

(***************************************************************************)
(* The bone detection effect: the skeleton metadata built from the skinned *)
(* meshes of a loaded model.  A mesh is its skeleton: bound or not, and    *)
(* the names of its bones in order.  Mesh names, identifiers and the       *)
(* per-joint parent and child fields are left out.                         *)
(***************************************************************************)
MaxMeshes == 2

sunnamed_bone_ == << "u", "n", "n", "a", "m", "e", "d", "_", "b", "o", "n", "e", "_" >>

\* String(idx) for one digit.
DigitOf(idx) == IF idx = 0 THEN "0" ELSE Digits[idx]

\* bone.name || `unnamed_bone_${idx}`: idx counts from 0.
BoneInfoName(name, idx) ==
    IF name = sEmpty THEN Append(sunnamed_bone_, DigitOf(idx)) ELSE name

\* mesh.skeleton?.bones mapped to its descriptors' names.
BoneInfos(skeleton) ==
    IF ~skeleton.bound THEN << >>
    ELSE [i \in 1..Len(skeleton.bones) |-> BoneInfoName(skeleton.bones[i], i - 1)]

\* allBonesArray: the descriptors of all meshes, mesh after mesh.
RECURSIVE AllBonesArray(_)
AllBonesArray(meshes) ==
    IF meshes = << >> THEN << >>
    ELSE BoneInfos(Head(meshes)) \o AllBonesArray(Tail(meshes))

\* [...new Set(names)]: each value once, in the order of first occurrence.
RECURSIVE UniqueNames(_)
UniqueNames(names) ==
    IF names = << >> THEN << >>
    ELSE LET front == UniqueNames(SubSeq(names, 1, Len(names) - 1))
             x == names[Len(names)]
         IN  IF x \in Range(front) THEN front ELSE Append(front, x)

\* mesh.skeleton?.bones.length || 0
BoneCount(skeleton) == IF ~skeleton.bound THEN 0 ELSE Len(skeleton.bones)

\* The SkeletonMetadata object.
Metadata(meshes) ==
    [ skinnedMeshes   |-> [i \in 1..Len(meshes) |->
                              [boneCount |-> BoneCount(meshes[i]),
                               bones |-> BoneInfos(meshes[i])]],
      allBones        |-> AllBonesArray(meshes),
      uniqueBoneNames |-> UniqueNames(AllBonesArray(meshes)),
      totalBones      |-> Len(AllBonesArray(meshes)),
      totalMeshes     |-> Len(meshes),
      hasSkeletalData |-> Len(meshes) > 0 ]

\* Skeletons of at most MaxNodes bones, or none.
Skeletons ==
    { [bound |-> FALSE, bones |-> << >>] } \cup
    { [bound |-> TRUE, bones |-> bones] :
          bones \in UNION { [1..k -> {sEmpty, sHead, sSpine}] : k \in 0..MaxNodes } }

\* A model of at most MaxMeshes skinned meshes is loaded.
InitMetadata ==
    /\ \E k \in 0..MaxMeshes : \E meshes \in [1..k -> Skeletons] :
           last = [op |-> "loaded", arg |-> meshes, ret |-> << >>, threw |-> FALSE]
    /\ scene = << >>
    /\ objs = [n \in Nodes |-> DefaultObj]
    /\ pose = RestPose
    /\ boneCache = << >>
    /\ activeAnimations = << >>
    /\ insOrder = << >>
    /\ registered = [id \in Ids |-> None]
    /\ lastRegistered = ""
    /\ warned = { }
    /\ pc = "idle"
    /\ cursor = 0
    /\ frame = NoFrame
    /\ startAnimations = << >>
    /\ startPose = RestPose
    /\ calls = << >>
    /\ warnings = 0

\* The effect runs: the metadata is built and handed to the UI.
DetectBones ==
    /\ last.op = "loaded"
    /\ last' = [op |-> "metadata", arg |-> last.arg, ret |-> Metadata(last.arg),
                threw |-> FALSE]
    /\ UNCHANGED << sceneVars, boneCache, controllerVars, updateVars >>

NextMetadata == DetectBones

SpecMetadata == InitMetadata /\ [][NextMetadata]_vars

(***************************************************************************)
(* Calls on a BoneAnimationController.  The host calls it between frames;  *)
(* while update() runs, only the animation functions it invokes can.       *)
(***************************************************************************)
RegisterAnimationCall(r) ==
    /\ pc # "update"
    /\ activeAnimations' = RegisterAnimation(activeAnimations, r.id, r.boneName, r.animation)
    /\ insOrder' = IF r.id \in Range(insOrder) THEN insOrder ELSE Append(insOrder, r.id)
    /\ registered' = [registered EXCEPT ![r.id] =
                          [boneName |-> r.boneName, animation |-> r.animation]]
    /\ lastRegistered' = r.id
    /\ warned' = warned \ { r.id }
    /\ ForgetUpdate
    /\ UNCHANGED << sceneVars, boneCache, last >>

UnregisterAnimationCall(id) ==
    /\ pc # "update"
    /\ activeAnimations' = UnregisterAnimation(activeAnimations, id)
    /\ insOrder' = SelectSeq(insOrder, LAMBDA i : i # id)
    /\ registered' = [registered EXCEPT ![id] = None]
    /\ lastRegistered' = IF lastRegistered = id THEN "" ELSE lastRegistered
    /\ warned' = warned \ { id }
    /\ ForgetUpdate
    /\ UNCHANGED << sceneVars, boneCache, last >>

\* clearAll
ClearAllCall ==
    /\ pc # "update"
    /\ activeAnimations' = ClearAll(activeAnimations)
    /\ insOrder' = << >>
    /\ registered' = [id \in Ids |-> None]
    /\ lastRegistered' = ""
    /\ warned' = { }
    /\ ForgetUpdate
    /\ UNCHANGED << sceneVars, boneCache, last >>

\* An update that rebuilds the cache before it loops.
UpdateBeginRebuilds(t, delta, context) ==
    /\ pc # "update"
    /\ pc' = "update"
    /\ cursor' = 0
    /\ frame' = [t |-> t, delta |-> delta, context |-> context]
    /\ startAnimations' = activeAnimations
    /\ startPose' = pose
    /\ calls' = << >>
    /\ warnings' = 0
    /\ boneCache' = RebuildCacheOf(scene, objs)
    /\ UNCHANGED << sceneVars, controllerVars, last >>

\* update(t, delta, context) is entered: the for-of loop starts at the head
\* of the table.
UpdateBegin(t, delta, context) ==
    /\ pc # "update"
    /\ pc' = "update"
    /\ cursor' = 0
    /\ frame' = [t |-> t, delta |-> delta, context |-> context]
    /\ startAnimations' = activeAnimations
    /\ startPose' = pose
    /\ calls' = << >>
    /\ warnings' = 0
    /\ UNCHANGED << sceneVars, boneCache, controllerVars, last >>

\* An invocation with time and delta exchanged.
InvocationSwapped(entry, bone, fr) ==
    [id |-> entry.key, boneName |-> entry.val.boneName,
     animation |-> entry.val.animation, bone |-> bone,
     t |-> fr.delta, delta |-> fr.t, context |-> fr.context]

\* The arguments update passes to the animation function.
Invocation(entry, bone, fr) ==
    [id |-> entry.key, boneName |-> entry.val.boneName,
     animation |-> entry.val.animation, bone |-> bone,
     t |-> fr.t, delta |-> fr.delta, context |-> fr.context]

\* The entry the loop takes next.
Current == activeAnimations[cursor + 1]

\* A loop body that skips an unresolved entry without a word.
UpdateWarnSilent ==
    /\ pc = "update"
    /\ cursor < Len(activeAnimations)
    /\ Resolve(boneCache, objs, Current) = Null
    /\ cursor' = cursor + 1
    /\ UNCHANGED << sceneVars, boneCache, controllerVars, pc, frame,
                    startAnimations, startPose, calls, warnings, last >>

\* A loop body that warns and drops the unresolved entry from the table.
UpdateWarnDrops ==
    /\ pc = "update"
    /\ cursor < Len(activeAnimations)
    /\ Resolve(boneCache, objs, Current) = Null
    /\ warnings' = warnings + 1
    /\ warned' = warned \cup { Current.key }
    /\ activeAnimations' = MapDelete(activeAnimations, Current.key)
    /\ UNCHANGED << sceneVars, boneCache, insOrder, registered, lastRegistered, pc,
                    cursor, frame, startAnimations, startPose, calls, last >>

\* The loop body for an entry whose selector resolves to no joint: one
\* console.warn, and on to the next entry.
UpdateWarn ==
    /\ pc = "update"
    /\ cursor < Len(activeAnimations)
    /\ Resolve(boneCache, objs, Current) = Null
    /\ warnings' = warnings + 1
    /\ warned' = warned \cup { Current.key }
    /\ cursor' = cursor + 1
    /\ UNCHANGED << sceneVars, boneCache, activeAnimations, insOrder, registered,
                    lastRegistered, pc, frame, startAnimations, startPose, calls,
                    last >>

\* How many of the entries the loop has passed remain after key id is
\* deleted (a Map iterator never returns to an entry it has passed).
PassedAfterDelete(table, passed, id) ==
    IF MapHas(table, id) /\ MapIndex(table, id) <= passed THEN passed - 1 ELSE passed

\* A loop that catches what an animation function throws and goes on.
PropagatesNever(fn) == FALSE

\* The invocation is in no try block: what the function throws leaves
\* update at once.
Propagates(fn) == fn.kind = "throws"

\* The loop body for an entry whose selector resolves: the animation
\* function is invoked, with whatever it does to the joint or, through a
\* reference to the controller, to the table the loop is iterating.
UpdateInvoke ==
    /\ pc = "update"
    /\ cursor < Len(activeAnimations)
    /\ Len(calls) < MaxCalls
    /\ Resolve(boneCache, objs, Current) # Null
    /\ LET entry == Current
           fn == entry.val.animation
           bone == Resolve(boneCache, objs, entry)
           passed == cursor + 1
       IN  /\ calls' = Append(calls, Invocation(entry, bone, frame))
           /\ pose' = IF fn.kind = "library"
                      THEN LibraryWrite(fn, pose, bone, frame.t)
                      ELSE pose
           /\ pc' = IF Propagates(fn) THEN "threw" ELSE "update"
           /\ activeAnimations' =
                  IF fn.kind = "unregisters"
                  THEN UnregisterAnimation(activeAnimations, fn.arg)
                  ELSE IF fn.kind = "reregisters"
                  THEN RegisterAnimation(UnregisterAnimation(activeAnimations, fn.arg),
                                         fn.arg, entry.val.boneName, fn)
                  ELSE IF fn.kind = "clears" THEN ClearAll(activeAnimations)
                  ELSE activeAnimations
           /\ cursor' =
                  IF Propagates(fn) THEN cursor
                  ELSE IF fn.kind \in {"unregisters", "reregisters"}
                  THEN PassedAfterDelete(activeAnimations, passed, fn.arg)
                  ELSE IF fn.kind = "clears" THEN 0
                  ELSE passed
           /\ insOrder' =
                  IF fn.kind = "unregisters"
                  THEN SelectSeq(insOrder, LAMBDA i : i # fn.arg)
                  ELSE IF fn.kind = "reregisters"
                  THEN Append(SelectSeq(insOrder, LAMBDA i : i # fn.arg), fn.arg)
                  ELSE IF fn.kind = "clears" THEN << >>
                  ELSE insOrder
           /\ registered' =
                  IF fn.kind = "unregisters"
                  THEN [registered EXCEPT ![fn.arg] = None]
                  ELSE IF fn.kind = "reregisters"
                  THEN [registered EXCEPT ![fn.arg] =
                            [boneName |-> entry.val.boneName, animation |-> fn]]
                  ELSE IF fn.kind = "clears" THEN [id \in Ids |-> None]
                  ELSE registered
           /\ lastRegistered' =
                  IF fn.kind = "unregisters"
                  THEN (IF lastRegistered = fn.arg THEN "" ELSE lastRegistered)
                  ELSE IF fn.kind = "reregisters" THEN fn.arg
                  ELSE IF fn.kind = "clears" THEN ""
                  ELSE lastRegistered
           /\ warned' =
                  IF fn.kind \in {"unregisters", "reregisters"}
                  THEN warned \ { fn.arg }
                  ELSE IF fn.kind = "clears" THEN { }
                  ELSE warned
    /\ UNCHANGED << scene, objs, boneCache, frame, startAnimations, startPose,
                    warnings, last >>

\* The loop has passed the last entry: update returns.
UpdateReturn ==
    /\ pc = "update"
    /\ cursor >= Len(activeAnimations)
    /\ pc' = "returned"
    /\ UNCHANGED << sceneVars, boneCache, controllerVars, cursor, frame,
                    startAnimations, startPose, calls, warnings, last >>

Next ==
    \/ \E r \in RegistrationCalls : RegisterAnimationCall(r)
    \/ \E id \in Ids : UnregisterAnimationCall(id)
    \/ ClearAllCall
    \/ RebuildCache
    \/ \E t \in Times, delta \in Deltas, context \in Contexts :
           UpdateBegin(t, delta, context)
    \/ UpdateWarn
    \/ UpdateInvoke
    \/ UpdateReturn

Spec == Init /\ [][Next]_vars

(***************************************************************************)
(* The controller on a scene that the host changes between frames          *)
(***************************************************************************)
\* The registerAnimation calls of this specification.
SceneRegistrations ==
    { [id |-> "X", boneName |-> shead, animation |-> JawSmile],
      [id |-> "Y", boneName |-> sspine, animation |-> HeadNod] }

\* Lookups read the cache and the names of the cached joints, never the
\* table or a transform: this specification takes them on a controller
\* that has not been given a registration yet.
Unregistered == activeAnimations = << >> /\ pose = RestPose

NextScene ==
    \/ \E r \in SceneRegistrations : Observing /\ RegisterAnimationCall(r)
    \/ \E name \in {sHead, sSpine} : AddNode(name)
    \/ \E n \in Nodes : RemoveNode(n)
    \/ RebuildCache
    \/ \E name \in {sHead, sSpine} : Unregistered /\ FindByNameCall(name)
    \/ \E n \in Nodes : Unregistered /\ FindByUUIDCall(UUID(n))
    \/ \E name \in {shead, sspine} : Unregistered /\ FindByPatternsCall(<< name >>)
    \/ \E name \in {shead, sspine} : Unregistered /\ FindAllByPatternCall(name)
    \/ Unregistered /\ GetAllBonesCall
    \/ \E t \in Times, delta \in Deltas, context \in Contexts :
           Observing /\ UpdateBegin(t, delta, context)
    \/ UpdateWarn
    \/ UpdateInvoke
    \/ UpdateReturn

SpecScene == Init /\ [][NextScene]_vars

(***************************************************************************)
(* Properties of BoneFinder, checked under SpecFinder                      *)
(***************************************************************************)
Cached == { boneCache[i].val : i \in 1..Len(boneCache) }

SceneJoints == Range(Joints(scene, objs))

SameIgnoringCase(a, b) == ToLowerCase(a) = ToLowerCase(b)

\* The joints of the scene all carry a name, and no two of them the same
\* name up to letter case.
DistinctNonEmptyNames ==
    /\ \A n \in SceneJoints : objs[n].name # << >>
    /\ \A m, n \in SceneJoints :
           m # n => ~SameIgnoringCase(objs[m].name, objs[n].name)

\* C1: on a registry built from a scene whose joints have distinct non-empty
\* names, findByName returns the joint that carries the name (up to letter
\* case), and null for every string that is no joint's name, a joint's
\* identifier included.
C1_FindByNameOnlyNames ==
    (last.op = "findByName" /\ Fresh /\ DistinctNonEmptyNames) =>
        LET named == { n \in SceneJoints : SameIgnoringCase(objs[n].name, last.arg) }
        IN  IF named = {} THEN last.ret = Null ELSE last.ret \in named

\* Candidate c, trimmed, occurs case-insensitively in a cache key of joint n
\* or in the name joint n carries now.
CandidateMatches(n, c) ==
    LET needle == Trim(ToLowerCase(c))
    IN  \/ \E i \in 1..Len(boneCache) :
               boneCache[i].val = n /\ Includes(ToLowerCase(boneCache[i].key), needle)
        \/ Includes(ToLowerCase(objs[n].name), needle)

AnyCandidateMatches(n, cs) == \E i \in 1..Len(cs) : CandidateMatches(n, cs[i])

C9_GetAllBonesOncePerJoint ==
    (last.op = "getAllBones" /\ Fresh) =>
        /\ Len(last.ret) = Len(Joints(scene, objs))
        /\ \A i, j \in 1..Len(last.ret) : i # j => last.ret[i] # last.ret[j]

C13_LookupsNeverRaise ==
    last.op \in {"findByName", "findByUUID", "findByPatterns", "findAllByPattern"} =>
        ~last.threw

\* C15: right after construction or rebuildCache, findByUUID returns every
\* joint of the scene for its identifier, every joint with a name has an
\* entry under its lower-cased name, and a joint without a name has no
\* entry but the one under its identifier.
C15_CacheKeysAfterRebuild ==
    Fresh =>
        /\ \A n \in SceneJoints : FindByUUID(boneCache, UUID(n)) = n
        /\ \A n \in SceneJoints :
               objs[n].name # << >> => MapHas(boneCache, ToLowerCase(objs[n].name))
        /\ \A i \in 1..Len(boneCache) :
               objs[boneCache[i].val].name = << >> =>
                   boneCache[i].key = UUID(boneCache[i].val)

\* A pattern without an operator of the regular-expression syntax.
IsLiteral(p) == \A i \in 1..Len(p) : p[i] \notin {"^", "$", ".", "(", ")"}

\* C17: when findAllByPattern returns, it returns the cached joints that
\* have a cache key matching the pattern case-insensitively, and no other;
\* for a pattern of plain characters, the joints with a key that contains
\* it up to letter case.
C17_FindAllExactlyMatching ==
    (last.op = "findAllByPattern" /\ ~last.threw) =>
        /\ \A n \in Cached :
               n \in Range(last.ret) <=>
                   \E i \in 1..Len(boneCache) :
                       boneCache[i].val = n /\ RegExpTest(last.arg, boneCache[i].key)
        /\ Range(last.ret) \subseteq Cached
        /\ IsLiteral(last.arg) =>
               Range(last.ret) =
                   { boneCache[i].val : i \in
                       { j \in 1..Len(boneCache) :
                           Includes(ToLowerCase(boneCache[j].key), ToLowerCase(last.arg)) } }

\* 'HEAD' finds the joint cached under 'head' and not the other one.
C17_Witness ==
    /\ last.op = "findAllByPattern"
    /\ last.arg = sHEAD
    /\ Len(boneCache) = 4
    /\ Cardinality(Range(last.ret)) = 1
    /\ MapHas(boneCache, shead)

\* The joints of the scene that carry name s up to letter case.
Named(s) == { n \in SceneJoints : SameIgnoringCase(objs[n].name, s) }

\* C18: on a registry just built, findByName of a name that several joints
\* carry (up to letter case) returns the one visited last, and findByUUID
\* returns every joint of the scene for its own identifier.
C18_LaterJointTakesName ==
    Fresh =>
        /\ (last.op = "findByName" /\ Named(last.arg) # {}) =>
               /\ last.ret \in Named(last.arg)
               /\ \A n \in Named(last.arg) :
                      \A i, j \in 1..Len(scene) :
                          (scene[i] = n /\ scene[j] = last.ret) => i <= j
        /\ last.op = "findByUUID" =>
               \A n \in SceneJoints : last.arg = UUID(n) => last.ret = n

\* Two joints named 'head' and 'Head': findByName('Head') gave the second.
C18_Witness ==
    /\ Fresh
    /\ last.op = "findByName"
    /\ last.arg = sHead
    /\ Cardinality(Named(sHead)) = 2
    /\ last.ret = scene[2]

\* C19: on a registry just built, the joint findByPatterns returns is the
\* first, in traversal order, of the joints that some candidate matches.
C19_FirstInTraversalOrder ==
    (Fresh /\ last.op = "findByPatterns" /\ last.ret # Null) =>
        \A i, j \in 1..Len(scene) :
            ( /\ scene[j] = last.ret
              /\ IsBone(objs, scene[i])
              /\ AnyCandidateMatches(scene[i], last.arg) )
            => j <= i

\* The candidate lists that are cs in another order.
Reordered(cs) ==
    { [i \in 1..Len(cs) |-> cs[f[i]]] : f \in Permutations(1..Len(cs)) }

\* C20: findByPatterns returns the same joint for the candidates in any
\* order.
C20_CandidateOrderIrrelevant ==
    last.op = "findByPatterns" =>
        \A cs \in Reordered(last.arg) : FindByPatterns(boneCache, objs, cs) = last.ret

\* 'spine' listed before 'head' on a scene with Head before Spine: the
\* result is Head.
C20_Witness ==
    /\ last.op = "findByPatterns"
    /\ last.arg = << sspine, shead >>
    /\ Len(scene) = 2
    /\ objs[scene[1]].name = sHead
    /\ objs[scene[2]].name = sSpine
    /\ last.ret = scene[1]
    /\ Fresh

\* What the lookups make of joint n, renamed from old to new in this step,
\* before and after a rebuild of the cache.
StaleNameUntilRebuilt(n, old, new) ==
    LET held == FindByName(boneCache, old) = n
        rebuilt == RebuildCacheOf(scene', objs')
    IN  /\ boneCache' = boneCache
        /\ held => FindByName(boneCache', old) = n
        /\ ~SameIgnoringCase(old, new) => FindByName(boneCache', new) # n
        /\ held =>
               /\ FindByPatterns(boneCache', objs', << old >>) # Null
               /\ \E i \in 1..Len(boneCache') :
                      /\ boneCache'[i].val = n
                      /\ boneCache'[i].key = ToLowerCase(old)
                      /\ EntryMatches(boneCache'[i], objs', old)
        /\ FindByPatterns(boneCache', objs', << new >>) # Null
        /\ \A i \in 1..Len(boneCache') :
               boneCache'[i].val = n => EntryMatches(boneCache'[i], objs', new)
        /\ ~SameIgnoringCase(old, new) => FindByName(rebuilt, old) # n
        /\ FindByName(rebuilt, new) # Null
        /\ SameIgnoringCase(objs'[FindByName(rebuilt, new)].name, new)
        /\ \A i \in 1..Len(rebuilt) :
               (rebuilt[i].val = n /\ EntryMatches(rebuilt[i], objs', old)) =>
                   \/ Includes(ToLowerCase(new), Trim(ToLowerCase(old)))
                   \/ Includes(UUID(n), Trim(ToLowerCase(old)))

\* C30: a joint renamed after the cache was built is, until rebuildCache,
\* found by findByName under its old name and not under its new one, and
\* matched by findByPatterns both by its old name (the cached key) and by
\* its new name (the name it carries); after rebuildCache the lookups go
\* by the new name only.
C30_RenamedJointStale ==
    [][ \A n \in Nodes, new \in JointNames :
            Rename(n, new) => StaleNameUntilRebuilt(n, objs[n].name, new) ]_vars

\* A joint was renamed and the cache not rebuilt: findByName has found it
\* under the name it no longer carries.
C30_Witness ==
    /\ last.op = "findByName"
    /\ ~Fresh
    /\ last.ret # Null
    /\ last.arg # UUID(last.ret)
    /\ ~SameIgnoringCase(objs[last.ret].name, last.arg)
    /\ objs[last.ret].name # << >>

(***************************************************************************)
(* Properties of BoneAnimationController, checked under Spec               *)
(***************************************************************************)
PosIn(seq, x) == CHOOSE i \in 1..Len(seq) : seq[i] = x

\* The joint the controller's registry resolves a selector to.
ResolvedJoint(boneName) == FindByPatterns(boneCache, objs, << boneName >>)

\* What update has to pass for table entry e and joint b.
ExpectedInvocation(e, b) ==
    [id |-> e.key, boneName |-> e.val.boneName, animation |-> e.val.animation,
     bone |-> b, t |-> frame.t, delta |-> frame.delta, context |-> frame.context]

\* Every registration of the table as it was when update was called, whose
\* selector resolves, has been invoked with the resolved joint and the
\* arguments of the call.
AllResolvedInvoked ==
    \A i \in 1..Len(startAnimations) :
        LET e == startAnimations[i]
            b == ResolvedJoint(e.val.boneName)
        IN  b # Null => \E k \in 1..Len(calls) : calls[k] = ExpectedInvocation(e, b)

\* The animation functions invoked so far only write to their joint: none
\* threw, none called back into the controller.
OnlyWrites == \A k \in 1..Len(calls) : calls[k].animation.kind = "library"

C4_LastRegistrationOnly ==
    /\ \A i, j \in 1..Len(activeAnimations) :
           i # j => activeAnimations[i].key # activeAnimations[j].key
    /\ \A id \in Ids :
           IF registered[id] = None
           THEN ~MapHas(activeAnimations, id)
           ELSE \E i \in 1..Len(activeAnimations) :
                    activeAnimations[i] = [key |-> id, val |-> registered[id]]
    /\ pc # "idle" =>
           \A k \in 1..Len(calls) :
               registered[calls[k].id] # None =>
                   /\ calls[k].boneName = registered[calls[k].id].boneName
                   /\ calls[k].animation = registered[calls[k].id].animation

\* X was registered, then Y, then X again, and an update has applied X.
C4_Witness ==
    /\ pc = "returned"
    /\ insOrder = << "X", "Y" >>
    /\ lastRegistered = "X"
    /\ Len(activeAnimations) = 2
    /\ \E k \in 1..Len(calls) :
           calls[k].id = "X" /\ calls[k].animation = registered["X"].animation

\* The value a library function invoked as c writes to rotation.x.
WrittenRx(c) == LibraryWrite(c.animation, RestPose, c.bone, c.t)[c.bone].rx

C6_UnresolvedWarnsOnce ==
    ( /\ pc # "idle"
      /\ Len(startAnimations) = 1
      /\ ~\E n \in Cached : CandidateMatches(n, startAnimations[1].val.boneName) )
    => /\ pc # "threw"
       /\ calls = << >>
       /\ pose = startPose
       /\ activeAnimations = startAnimations
       /\ warnings = cursor
       /\ cursor <= 1
       /\ pc = "returned" => warnings = 1

C6_Witness ==
    /\ pc = "returned"
    /\ Len(startAnimations) = 1
    /\ warnings = 1
    /\ calls = << >>
    /\ SceneJoints # {}

\* An update called on an empty table does nothing and does not throw.
EmptyUpdateIsNoOp ==
    (pc # "idle" /\ startAnimations = << >>) =>
        /\ pc # "threw"
        /\ calls = << >>
        /\ warnings = 0
        /\ pose = startPose
        /\ activeAnimations = << >>
        /\ cursor = 0

\* C7: clearAll leaves the table empty whatever it held, and update on an
\* empty table invokes nothing, warns of nothing, changes no transform and
\* does not throw.
C7_ClearedThenNoOp ==
    /\ [][ClearAllCall => activeAnimations' = << >>]_vars
    /\ []EmptyUpdateIsNoOp

\* An update that found the table empty, on a controller whose
\* registrations had written to a joint before.
C7_Witness ==
    /\ pc = "returned"
    /\ startAnimations = << >>
    /\ pose # RestPose

\* Table new is table old without the entry under id: nothing else is
\* gone, nothing is new, and what remains is in the order it was.
RemovedOnly(old, new, id) ==
    /\ \A i \in 1..Len(new) : new[i].key # id
    /\ \A i \in 1..Len(old) : old[i].key # id => old[i] \in Range(new)
    /\ \A i \in 1..Len(new) : new[i] \in Range(old)
    /\ \A i, j \in 1..Len(new) : i < j => PosIn(old, new[i]) < PosIn(old, new[j])
    /\ ~MapHas(old, id) => new = old

\* C8: unregisterAnimation(id), called by the host or by an animation
\* function, removes the entry under id and nothing else, keeps the order
\* of the rest, and changes nothing when id is not registered.
C8_UnregisterRemovesOnlyId ==
    [][ /\ \A id \in Ids :
               UnregisterAnimationCall(id) =>
                   /\ RemovedOnly(activeAnimations, activeAnimations', id)
                   /\ pose' = pose
                   /\ boneCache' = boneCache
        /\ ( /\ pc = "update"
             /\ cursor < Len(activeAnimations)
             /\ Current.val.animation.kind = "unregisters"
             /\ UpdateInvoke )
           => RemovedOnly(activeAnimations, activeAnimations', Current.val.animation.arg)
      ]_vars

\* Three registrations of which the one registered last was unregistered.
C8_Witness ==
    /\ pc = "idle"
    /\ Len(activeAnimations) = 2
    /\ lastRegistered = ""

\* The joint transforms after the invocations cs, made in order on pose p.
RECURSIVE PoseAfter(_, _)
PoseAfter(p, cs) ==
    IF cs = << >> THEN p
    ELSE PoseAfter(LibraryWrite(Head(cs).animation, p, Head(cs).bone, Head(cs).t),
                   Tail(cs))

\* C16: in an update whose animation functions write transforms or throw,
\* a function that throws ends the update with its exception; it is the
\* last invocation of the call, the entries before it have been applied,
\* the entries after it have not been invoked, the table is the one the
\* update started with and the registry is as it was built.
C16_ThrowEndsUpdate ==
    ( /\ pc # "idle"
      /\ \A k \in 1..Len(calls) : calls[k].animation.kind \in {"library", "throws"} )
    => /\ pc = "threw" => calls # << >> /\ calls[Len(calls)].animation.kind = "throws"
       /\ \A k \in 1..Len(calls) :
              calls[k].animation.kind = "throws" =>
                  /\ pc = "threw"
                  /\ k = Len(calls)
                  /\ activeAnimations = startAnimations
                  /\ Fresh
                  /\ cursor < Len(startAnimations)
                  /\ startAnimations[cursor + 1].key = calls[k].id
                  /\ \A i \in 1..cursor :
                         LET e == startAnimations[i]
                             b == ResolvedJoint(e.val.boneName)
                         IN  b # Null =>
                                 \E j \in 1..(k - 1) : calls[j] = ExpectedInvocation(e, b)
                  /\ pose = PoseAfter(startPose, calls)
                  /\ \A i \in (cursor + 2)..Len(startAnimations) :
                         \A j \in 1..Len(calls) : calls[j].id # startAnimations[i].key

\* The second of three registrations threw: the first has moved its joint,
\* the third resolves and was not invoked.
C16_Witness ==
    /\ pc = "threw"
    /\ Len(startAnimations) = 3
    /\ Len(calls) = 2
    /\ cursor = 1
    /\ pose # startPose
    /\ ResolvedJoint(startAnimations[3].val.boneName) # Null

\* C22: within one update call no registration's animation function is
\* invoked more than once, whatever the functions do to the table while
\* the loop runs.
C22_AtMostOncePerUpdate ==
    \A j, k \in 1..Len(calls) : calls[j].id = calls[k].id => j = k

\* The identifiers of a table, in its order.
KeysOf(table) == [i \in 1..Len(table) |-> table[i].key]

\* None of the functions invoked in this update called back into the
\* controller.
NoCallbacks == \A k \in 1..Len(calls) : calls[k].animation.kind \in {"library", "throws"}

\* The table's order is the order in which the identifiers now registered
\* were inserted, and update invokes in that order.
AppliedInInsertionOrder ==
    /\ KeysOf(activeAnimations) = insOrder
    /\ (pc # "idle" /\ NoCallbacks) =>
           \A j, k \in 1..Len(calls) :
               j < k => PosIn(insOrder, calls[j].id) < PosIn(insOrder, calls[k].id)

\* registerAnimation for an identifier the table holds replaces the entry
\* where it is; for any other identifier it appends an entry.
ReplacesInPlaceOrAppends ==
    \A r \in RegistrationCalls :
        RegisterAnimationCall(r) =>
            LET entry == [key |-> r.id,
                          val |-> [boneName |-> r.boneName, animation |-> r.animation]]
            IN  IF MapHas(activeAnimations, r.id)
                THEN activeAnimations' =
                         [activeAnimations EXCEPT ![MapIndex(activeAnimations, r.id)] = entry]
                ELSE activeAnimations' = Append(activeAnimations, entry)

\* C29: registering an identifier that is registered replaces its selector
\* and function and keeps its place in the order; registered after an
\* unregisterAnimation or clearAll it goes to the end; update applies the
\* registrations in the order of their earliest still-live registration.
C29_ReregisteringKeepsPlace ==
    /\ []AppliedInInsertionOrder
    /\ [][ReplacesInPlaceOrAppends]_vars

\* X was registered, then Y, then X again, and an update has applied X
\* before Y.
C29_Witness ==
    /\ pc = "returned"
    /\ insOrder = << "X", "Y" >>
    /\ lastRegistered = "X"
    /\ registered["X"] = [boneName |-> shead, animation |-> JawSmile]
    /\ Len(calls) = 2
    /\ calls[1].id = "X"
    /\ calls[2].id = "Y"

\* A step in which update invokes an animation function that calls
\* clearAll before it returns.
ClearAllInsideInvocation ==
    /\ pc = "update"
    /\ cursor < Len(activeAnimations)
    /\ Resolve(boneCache, objs, Current) # Null
    /\ Current.val.animation.kind = "clears"
    /\ Len(calls') = Len(calls) + 1

\* C23: clearAll never executes while an animation-function invocation
\* started by update is still in progress.
C23_NoInvocationInFlightAtClear == [][~ClearAllInsideInvocation]_vars

(***************************************************************************)
(* Properties of the controller on a changing scene, checked under         *)
(* SpecScene                                                               *)
(***************************************************************************)
\* C14: a registration that an earlier update found unresolved, and that
\* was not registered again since, is invoked by an update that returns
\* once its selector resolves in the registry (a matching joint was added
\* and the cache rebuilt), on the joint it resolves to.
C14_RetriedWithoutReregistering ==
    (pc = "returned" /\ OnlyWrites) =>
        \A id \in warned :
            LET r == registered[id]
                b == ResolvedJoint(r.boneName)
            IN  (r # None /\ b # Null) =>
                    \E k \in 1..Len(calls) :
                        calls[k] = [id |-> id, boneName |-> r.boneName,
                                    animation |-> r.animation, bone |-> b,
                                    t |-> frame.t, delta |-> frame.delta,
                                    context |-> frame.context]

\* A registration warned about in an earlier update has now been invoked,
\* on the joint added last.
C14_Witness ==
    /\ pc = "returned"
    /\ \E id \in warned :
           \E k \in 1..Len(calls) :
               /\ calls[k].id = id
               /\ scene # << >>
               /\ calls[k].bone = scene[Len(scene)]
               /\ pose[calls[k].bone] # RestPose[calls[k].bone]

\* The joints added to the scene, and those taken out of it, since the
\* cache was built.
Added == SceneJoints \ Cached

Removed == Cached \ SceneJoints

\* What the lookups and update do on a registry that may be stale.
StaleUntilRebuilt ==
    /\ last.op \in {"findByName", "findByUUID", "findByPatterns"} =>
           last.ret \notin Added
    /\ (last.op \in {"findAllByPattern", "getAllBones"} /\ ~last.threw) =>
           Range(last.ret) \cap Added = { }
    /\ last.op = "findByUUID" =>
           \A n \in Cached : last.arg = UUID(n) => last.ret = n
    /\ last.op = "getAllBones" => Removed \subseteq Range(last.ret)
    /\ pc # "idle" => \A k \in 1..Len(calls) : calls[k].bone \in Cached
    /\ (pc = "returned" /\ OnlyWrites) =>
           AllResolvedInvoked /\ pose = PoseAfter(startPose, calls)

\* C21: until rebuildCache is called, a joint added to the scene since
\* the cache was built is returned by no lookup and invoked by no update,
\* a joint removed since is still returned by lookups and still written
\* by update; and the cache changes in no step but a rebuildCache call.
C21_StaleUntilRebuilt ==
    /\ []StaleUntilRebuilt
    /\ [][boneCache' # boneCache => RebuildCache]_vars

\* An update has written to a joint that is no longer in the scene.
C21_Witness ==
    /\ pc = "returned"
    /\ \E k \in 1..Len(calls) :
           /\ calls[k].bone \in Removed
           /\ pose[calls[k].bone] # RestPose[calls[k].bone]

(***************************************************************************)
(* Properties of SkeletonMap, checked under SpecSkeleton                   *)
(***************************************************************************)
\* The joints whose name is a head name of a supported convention.
ConventionHeads ==
    { n \in SceneJoints : objs[n].name \in { smixamorigHead, sbip001_head } }

\* C11: a SkeletonMap built on a scene with one joint named as a head by a
\* supported convention holds that joint in its head slot whatever else
\* the scene contains; built on a scene where no joint matches a head
\* candidate, its head slot is absent and the constructor did not throw.
C11_HeadSlotIsTheHead ==
    last.op = "SkeletonMap" =>
        /\ \A n \in ConventionHeads : ConventionHeads = {n} => last.ret.head = n
        /\ (~\E n \in SceneJoints : AnyCandidateMatches(n, HeadCandidates)) =>
               last.ret.head = Null /\ ~last.threw

\* The joints a SkeletonMap holds in some slot.
Populated(skel) == { skel[role] : role \in Roles } \ { Null }

\* C12: applying a full-body pose to a SkeletonMap, whichever of its slots
\* are absent, does not throw, leaves every joint that no slot holds as it
\* was, and leaves position and scale of every joint as they were.
C12_PosesWriteOnlyPopulatedSlots ==
    [][ \A name \in PoseNames, t \in PoseTimes :
            ApplyPose(name, t) =>
                /\ ~last'.threw
                /\ \A n \in Nodes :
                       /\ n \notin Populated(last.ret) => pose'[n] = pose[n]
                       /\ pose'[n].position = pose[n].position
                       /\ pose'[n].scale = pose[n].scale
      ]_vars

\* Defiant_Flirty has been applied to a map with a head and without hips,
\* on a scene with a joint that no slot holds.
C12_Witness ==
    /\ last.op = "SkeletonMap"
    /\ last.ret.hips = Null
    /\ last.ret.head # Null
    /\ pose[last.ret.head].ry = -200
    /\ \E n \in SceneJoints : n \notin Populated(last.ret) /\ pose[n] = RestPose[n]

\* The role slots the body of a pose passes to animateBone.
WrittenRoles(name, t) ==
    { PoseSteps(name, t)[i].role : i \in 1..Len(PoseSteps(name, t)) }

\* C24: a full-body pose applied to a SkeletonMap sets the rotation of the
\* joint in every populated role slot of the map.
C24_PosesWriteEveryPopulatedSlot ==
    [][ \A name \in PoseNames, t \in PoseTimes :
            ApplyPose(name, t) =>
                \A role \in Roles :
                    last.ret[role] # Null => role \in WrittenRoles(name, t)
      ]_vars

\* A pose no joint of the model is ever in.
Elsewhere ==
    [n \in Nodes |-> [RestPose[n] EXCEPT !.rx = 7777, !.ry = 7777, !.rz = 7777]]

\* What a pose applied to skel at time t leaves in p, told from what it
\* leaves in Elsewhere: a field it changes there it writes.
Overwritten(name, skel, p, t) ==
    LET w == FullBodyAnimation(name, skel, Elsewhere, t)
    IN  [n \in Nodes |->
            [p[n] EXCEPT !.rx = IF w[n].rx # 7777 THEN w[n].rx ELSE @,
                         !.ry = IF w[n].ry # 7777 THEN w[n].ry ELSE @,
                         !.rz = IF w[n].rz # 7777 THEN w[n].rz ELSE @]]

\* C25: applying a full-body pose again to the same SkeletonMap with the
\* same time value changes nothing, and the rotation values a pose leaves
\* in the fields it writes are the same whatever state the joints were in
\* before, also when two role slots hold the same joint.
C25_PosesIdempotent ==
    [][ \A name \in PoseNames, t \in PoseTimes :
            ApplyPose(name, t) =>
                /\ FullBodyAnimation(name, last.ret, pose', t) = pose'
                /\ pose' = Overwritten(name, last.ret, pose, t)
      ]_vars

\* Defiant_Flirty has been applied at t = 1 to a map whose neck and head
\* slots hold the same joint: the joint is as the head write leaves it.
C25_Witness ==
    /\ last.op = "SkeletonMap"
    /\ last.ret.head # Null
    /\ last.ret.neck = last.ret.head
    /\ pose[last.ret.head].rx = 200
    /\ pose[last.ret.head].ry = -200
    /\ pose[last.ret.head].rz = -184

(***************************************************************************)
(* Properties of the animation library, checked under SpecLibrary          *)
(***************************************************************************)
\* A call of function name after which the same call again leaves the
\* joint as it is.
SecondCallChangesNothing(name) ==
    \A t \in LibraryTimes, context \in LibraryContexts :
        LibraryCall(name, t, context) =>
            BoneAnimation(name, pose'[1], t, context) = pose'[1]

\* C26: calling a library function a second time on the same joint with
\* the same time value and context changes nothing, for every function of
\* the library except Jaw_Talk.
C26_IdempotentExceptJawTalk ==
    [][\A name \in LibraryNames \ { "Jaw_Talk" } : SecondCallChangesNothing(name)]_vars

\* C26 as amended: the same for every function except Jaw_Talk and
\* Eye_Blink, the two that move the joint part of the way to a target.
C26_IdempotentExceptSmoothed ==
    [][\A name \in LibraryNames \ { "Jaw_Talk", "Eye_Blink" } :
           SecondCallChangesNothing(name)]_vars

\* Finger_Idle has been called at t = 1 on a joint that was turned and
\* moved before: it has read position.x and set rotation.z.
C26_Witness ==
    /\ last.op = "Finger_Idle"
    /\ pose[1].position.x = 500
    /\ pose[1].rx = 100
    /\ pose[1].rz = 90

(***************************************************************************)
(* Properties of the host's frame, checked under SpecFrame                 *)
(***************************************************************************)
HeadJoint == FindByPatterns(boneCache, objs, << sbip001head >>)

SpineJoint == FindByPatterns(boneCache, objs, << sbip001spine >>)

\* What the frame's joints hold when the callback has ended.
ProceduralThenOverride ==
    pc = "frame end" =>
        LET breath == SinMilli(frame.t * 500)
            jaw == ManualJaw(boneCache, objs)
            overridden == frame.context.isSpeaking /\ jaw # Null
        IN  /\ HeadJoint # Null =>
                   /\ pose[HeadJoint].position.y = (breath * 10) \div 1000
                   /\ ~(overridden /\ jaw = HeadJoint) =>
                          pose[HeadJoint].rx = (breath * 20) \div 1000
            /\ SpineJoint # Null =>
                   /\ pose[SpineJoint].position.y = (breath * 5) \div 1000
                   /\ pose[SpineJoint].scale.x = 1000 + (breath * 30) \div 1000
            /\ overridden => pose[jaw].rx = (SinMilli(frame.t * 15000) * 120) \div 1000
            /\ \A n \in last.arg \ { HeadJoint, SpineJoint } :
                   /\ pose[n].position.y = 50
                   /\ pose[n].scale.x = 900
                   /\ ~(overridden /\ jaw = n) => pose[n].rx = 300

\* The statements of the callback run in their order.
MixerUpdateOverrideInOrder ==
    /\ pc' = "mixed" => pc \in { "idle", "frame end" }
    /\ pc' = "updated" => pc = "mixed"
    /\ pc' = "frame end" => pc = "updated"

\* C27: in every frame clip playback is applied before the controller's
\* update and the manual jaw override after it: at the end of the frame a
\* field written by the clip and by a registered animation holds the
\* animation's value, and a field written by a registered animation and
\* by the override holds the override's.
C27_LastAppliedWins ==
    /\ []ProceduralThenOverride
    /\ [][MixerUpdateOverrideInOrder]_vars

\* A frame at t = 1 while speaking has ended on a model whose head joint
\* is also the jaw and has clip tracks: its height is the breathing's and
\* its rotation.x the override's.
C27_Witness ==
    /\ pc = "frame end"
    /\ frame.t = 1
    /\ frame.context.isSpeaking
    /\ HeadJoint # Null
    /\ HeadJoint \in last.arg
    /\ ManualJaw(boneCache, objs) = HeadJoint
    /\ pose[HeadJoint].position.y = 4
    /\ pose[HeadJoint].rx = 78

(***************************************************************************)
(* Properties of the skeleton metadata, checked under SpecMetadata         *)
(***************************************************************************)
RECURSIVE SumOfBoneCounts(_)
SumOfBoneCounts(infos) ==
    IF infos = << >> THEN 0 ELSE Head(infos).boneCount + SumOfBoneCounts(Tail(infos))

\* The counts and names of a metadata object agree with its lists.
CountsAgree(m) ==
    /\ m.totalBones = Len(m.allBones)
    /\ m.totalBones = SumOfBoneCounts(m.skinnedMeshes)
    /\ m.totalMeshes = Len(m.skinnedMeshes)
    /\ Range(m.uniqueBoneNames) = Range(m.allBones)
    /\ \A i, j \in 1..Len(m.uniqueBoneNames) :
           m.uniqueBoneNames[i] = m.uniqueBoneNames[j] => i = j

\* C28: in the metadata of a loaded model totalBones is the length of
\* allBones and the sum of the meshes' boneCount, totalMeshes the number
\* of skinned meshes, uniqueBoneNames holds every name of allBones once,
\* and hasSkeletalData is true exactly when at least one joint was
\* inventoried.
C28_MetadataConsistent ==
    last.op = "metadata" =>
        /\ CountsAgree(last.ret)
        /\ last.ret.hasSkeletalData <=> Len(last.ret.allBones) > 0

\* The counts agree in every metadata object (the flag apart).
MetadataCountsAgree == last.op = "metadata" => CountsAgree(last.ret)

=============================================================================
